---------------------------- MODULE Spec2Model ----------------------------
(* Model of the Korean TTS text front-end of src/model_making/TTS/dataset.py *)
(* (numeral expansion, Hangul decomposition, text normalisation, symbol/id    *)
(* sequencing) and of the lazily built mel-basis cache of the same file.      *)
(* Strings are sequences of Unicode code points (naturals).  A call that may  *)
(* raise returns a record [raised, val].                                      *)
EXTENDS Integers, Sequences, FiniteSets, TLC

VARIABLES
    text, conv_alpha, conv_number, pc, result, seq1, seq2,  \* text pipeline
    number, num_pc, num_out,                                \* numeral expander
    hangul, han_pc, han_out,                                \* Hangul decomposer
    mel_basis, tpc, tfn, tlocal, builds, writes, calls      \* mel-basis cache

vars == <<text, conv_alpha, conv_number, pc, result, seq1, seq2,
          number, num_pc, num_out, hangul, han_pc, han_out,
          mel_basis, tpc, tfn, tlocal, builds, writes, calls>>

textVars == <<text, conv_alpha, conv_number, pc, result, seq1, seq2>>
numVars  == <<number, num_pc, num_out>>
hanVars  == <<hangul, han_pc, han_out>>
melVars  == <<mel_basis, tpc, tfn, tlocal, builds, writes, calls>>

---------------------------------------------------------------------------
(* Bounds of the model *)

\* longest digit run handed to convert_number on its own
MaxDigits == 9
\* longest free-form input text of the pipeline
MaxText == 3
\* longest pure digit run typed into the pipeline
MaxRun == 17
\* threads calling the mel functions, and calls each of them makes
NumThreads == 2
MaxCalls == 2

---------------------------------------------------------------------------
(* Generic string helpers *)

Ok(v) == [raised |-> FALSE, val |-> v]
Raised == [raised |-> TRUE, val |-> <<>>]

Reverse(s) == [i \in 1..Len(s) |-> s[Len(s) + 1 - i]]

RECURSIVE Join(_)
Join(ss) == IF ss = <<>> THEN <<>> ELSE Head(ss) \o Join(Tail(ss))

Range(s) == {s[i] : i \in 1..Len(s)}

\* 1-based position of c in s (0 when absent)
IndexOf(c, s) == IF c \in Range(s) THEN CHOOSE i \in 1..Len(s) : s[i] = c ELSE 0

IsDigit(c) == c \in 48..57
IsLowerAlpha(c) == c \in 97..122
IsUpperAlpha(c) == c \in 65..90
IsSpace(c) == c \in {9, 10, 11, 12, 13, 32}
IsSyllable(c) == c \in 44032..55203
IsJaeum(c) == c \in 12593..12622
IsMoeum(c) == c \in 12623..12643
IsPunc(c) == c \in {44, 46, 63, 33}

---------------------------------------------------------------------------
(* Tables of hparams.symbols (hparams.py is not among the sources) *)

\* digit words 0..9
digits == << <<50689>>, <<51068>>, <<51060>>, <<49340>>, <<49324>>,
             <<50724>>, <<50977>>, <<52832>>, <<54036>>, <<44396>> >>

\* magnitude words: ten, hundred, thousand, 10^4, 10^8, 10^12
number_of_digits == << <<49901>>, <<48177>>, <<52380>>,
                       <<47564>>, <<50613>>, <<51312>> >>

\* per-letter pronunciation, 'a'..'z'
alpha_pron == <<
    <<50640, 51060>>, <<48708>>, <<50472>>, <<46356>>, <<51060>>,
    <<50640, 54532>>, <<51648>>, <<50640, 51060, 52824>>, <<50500, 51060>>,
    <<51228, 51060>>, <<52992, 51060>>, <<50648>>, <<50656>>, <<50644>>,
    <<50724>>, <<54588>>, <<53328>>, <<50508>>, <<50640, 49828>>, <<54000>>,
    <<50976>>, <<48652, 51060>>, <<45908, 48660, 50976>>, <<50641, 49828>>,
    <<50752, 51060>>, <<51648>> >>

\* ordered conversion rules (pattern character, replacement word): '%'
convert_symbols == << [pat |-> 37, word |-> <<54140, 49468, 53944>>] >>

\* names of the consonants whose name does not follow the doubling
\* convention: the double consonants and the consonant clusters
special_ja == [c \in {12594, 12600, 12611, 12614, 12617, 12595, 12597, 12598,
                      12602, 12603, 12604, 12605, 12606, 12607, 12608, 12612} |->
    CASE c = 12594 -> <<49933, 44592, 50669>>
      [] c = 12600 -> <<49933, 46356, 44543>>
      [] c = 12611 -> <<49933, 48708, 51021>>
      [] c = 12614 -> <<49933, 49884, 50743>>
      [] c = 12617 -> <<49933, 51648, 51026>>
      [] c = 12595 -> <<44592, 50669, 49884, 50743>>
      [] c = 12597 -> <<45768, 51008, 51648, 51026>>
      [] c = 12598 -> <<45768, 51008, 55176, 51031>>
      [] c = 12602 -> <<47532, 51012, 44592, 50669>>
      [] c = 12603 -> <<47532, 51012, 48120, 51020>>
      [] c = 12604 -> <<47532, 51012, 48708, 51021>>
      [] c = 12605 -> <<47532, 51012, 49884, 50743>>
      [] c = 12606 -> <<47532, 51012, 54000, 51029>>
      [] c = 12607 -> <<47532, 51012, 54588, 51030>>
      [] c = 12608 -> <<47532, 51012, 55176, 51031>>
      [] c = 12612 -> <<48708, 51021, 49884, 50743>>]

\* the vocabulary: pad, eos, punctuation and space, digits, letters, and the
\* leading / vowel / trailing jamo
symbols == <<95, 126, 33, 44, 46, 63, 32>>
           \o [i \in 1..10 |-> 47 + i]
           \o [i \in 1..26 |-> 96 + i]
           \o [i \in 1..19 |-> 4351 + i]
           \o [i \in 1..21 |-> 4448 + i]
           \o [i \in 1..27 |-> 4519 + i]

---------------------------------------------------------------------------
(* Numeral expander *)

\* get_number_of_digits: Python index k of the table is position k + 1 here;
\* an index past the end of the table raises IndexError
Lookup(k) == IF k + 1 <= Len(number_of_digits)
             THEN Ok(number_of_digits[k + 1]) ELSE Raised

get_number_of_digits(i) ==
    IF i < 4 THEN Lookup(i - 1)
    ELSE IF i % 4 = 0 THEN Lookup((i \div 4) + 2)
    ELSE LET lo == Lookup((i % 4) - 1)
             hi == Lookup((i \div 4) + 2)
         IN IF lo.raised \/ hi.raised THEN Raised ELSE Ok(lo.val \o hi.val)

\* a variant that never elides the digit word of a 1
digit_words_noelide(i, n) ==
    IF i = 0 THEN Ok(digits[n + 1])
    ELSE LET m == get_number_of_digits(i)
         IN IF m.raised THEN Raised ELSE Ok(digits[n + 1] \o m.val)

\* the contribution of non-zero digit n at position i (body of the loop)
digit_words(i, n) ==
    IF i = 0 THEN Ok(digits[n + 1])
    ELSE IF n = 1 THEN get_number_of_digits(i)
    ELSE LET m == get_number_of_digits(i)
         IN IF m.raised THEN Raised ELSE Ok(digits[n + 1] \o m.val)

\* the loop over the reversed digit string, from Python index i on
RECURSIVE number_loop(_, _, _)
number_loop(rev, i, number_list) ==
    IF i = Len(rev) THEN Ok(Join(Reverse(number_list)))
    ELSE LET n == rev[i + 1] - 48
         IN IF n = 0 THEN number_loop(rev, i + 1, number_list)
            ELSE LET d == digit_words(i, n)
                 IN IF d.raised THEN Raised
                    ELSE number_loop(rev, i + 1, Append(number_list, d.val))

RECURSIVE lstrip0(_)
lstrip0(s) == IF s # <<>> /\ Head(s) = 48 THEN lstrip0(Tail(s)) ELSE s

\* a variant without the empty-run check
convert_number_nozero(run) == number_loop(Reverse(lstrip0(run)), 0, <<>>)

convert_number(run) ==
    LET rev == Reverse(lstrip0(run))
    IN IF Len(rev) = 0 THEN Ok(digits[1]) ELSE number_loop(rev, 0, <<>>)

---------------------------------------------------------------------------
(* Hangul decomposer *)

\* hgtk's jamo lists (compatibility jamo): leading, and trailing consonants
CHO == <<12593, 12594, 12596, 12599, 12600, 12601, 12609, 12610, 12611, 12613,
         12614, 12615, 12616, 12617, 12618, 12619, 12620, 12621, 12622>>
JONG == <<12593, 12594, 12595, 12596, 12597, 12598, 12599, 12601, 12602,
          12603, 12604, 12605, 12606, 12607, 12608, 12609, 12610, 12612,
          12613, 12614, 12615, 12616, 12618, 12619, 12620, 12621, 12622>>

\* hgtk.letter.compose: the syllable of a leading consonant, a vowel and a
\* trailing consonant (0: none), all compatibility jamo
letter_compose(cho, joong, jong) ==
    44032 + ((IndexOf(cho, CHO) - 1) * 21 + (joong - 12623)) * 28
          + (IF jong = 0 THEN 0 ELSE IndexOf(jong, JONG))

\* hgtk.text.compose with compose_code " ": a three-state scan (st 0: waits
\* for a leading consonant, 1: for a vowel, 2: for a trailing consonant)
RECURSIVE compose_scan(_, _, _, _, _, _)
compose_scan(s, i, st, cho, joong, res) ==
    IF i > Len(s) THEN res
    ELSE LET c == s[i]
             isCho == c \in Range(CHO)
             lit == IF c = 32 THEN <<>> ELSE <<c>>
         IN CASE st = 0 ->
                  IF isCho THEN compose_scan(s, i + 1, 1, c, 0, res)
                  ELSE compose_scan(s, i + 1, 0, 0, 0, res \o lit)
              [] st = 1 ->
                  IF c # 32 /\ IsMoeum(c)
                  THEN compose_scan(s, i + 1, 2, cho, c, res)
                  ELSE IF isCho
                  THEN compose_scan(s, i + 1, 1, c, 0, Append(res, cho))
                  ELSE compose_scan(s, i + 1, 0, 0, 0, Append(res, cho) \o lit)
              [] OTHER ->
                  IF c # 32 /\ c \in Range(JONG)
                  THEN compose_scan(s, i + 1, 0, 0, 0,
                                    Append(res, letter_compose(cho, joong, c)))
                  ELSE IF isCho
                  THEN compose_scan(s, i + 1, 1, c, 0,
                                    Append(res, letter_compose(cho, joong, 0)))
                  ELSE compose_scan(s, i + 1, 0, 0, 0,
                                    Append(res, letter_compose(cho, joong, 0)) \o lit)

compose(s) == compose_scan(s, 1, 0, 0, 0, <<>>)

\* NFKD of the compatibility jamo U+3131..U+3163
compat_nfkd == <<4352, 4353, 4522, 4354, 4524, 4525, 4355, 4356, 4357, 4528,
                 4529, 4530, 4531, 4532, 4533, 4378, 4358, 4359, 4360, 4385,
                 4361, 4362, 4363, 4364, 4365, 4366, 4367, 4368, 4369, 4370,
                 4449, 4450, 4451, 4452, 4453, 4454, 4455, 4456, 4457, 4458,
                 4459, 4460, 4461, 4462, 4463, 4464, 4465, 4466, 4467, 4468,
                 4469>>

\* a variant that emits the trailing slot also when it is empty
nfkd_filler(c) ==
    IF IsSyllable(c)
    THEN LET char_id == c - 44032
         IN <<4352 + ((char_id \div 28) \div 21), 4449 + ((char_id \div 28) % 21),
              4519 + (char_id % 28)>>
    ELSE IF IsJaeum(c) \/ IsMoeum(c) THEN <<compat_nfkd[c - 12592]>>
    ELSE <<c>>

\* unicodedata.normalize('NFKD', c) of one character
nfkd(c) ==
    IF IsSyllable(c)
    THEN LET char_id == c - 44032
             lv == <<4352 + ((char_id \div 28) \div 21), 4449 + ((char_id \div 28) % 21)>>
         IN IF char_id % 28 # 0 THEN Append(lv, 4519 + (char_id % 28)) ELSE lv
    ELSE IF IsJaeum(c) \/ IsMoeum(c) THEN <<compat_nfkd[c - 12592]>>
    ELSE <<c>>

\* the string placed between the two copies of an isolated consonant
middle(h) ==
    IF h = 12593 THEN <<12643, 32, 12615, 12629>>
    ELSE IF h = 12599 THEN <<12643, 32, 12593, 12641>>
    ELSE IF h = 12613 THEN <<12643, 32, 12615, 12631>>
    ELSE <<12643, 32, 12615, 12641>>

\* a variant that leaves an isolated vowel as it is
jamo_name_bare_vowel(h) ==
    IF IsJaeum(h)
    THEN IF h \in DOMAIN special_ja THEN special_ja[h]
         ELSE compose(<<h>> \o middle(h) \o <<h, 32>>)
    ELSE <<h>>

\* what an isolated jamo (or a syllable) is replaced by before decomposition
jamo_name(h) ==
    IF IsJaeum(h)
    THEN IF h \in DOMAIN special_ja THEN special_ja[h]
         ELSE compose(<<h>> \o middle(h) \o <<h, 32>>)
    ELSE IF IsMoeum(h) THEN compose(<<12615, h, 32>>)
    ELSE <<h>>

RECURSIVE nfkd_all(_)
nfkd_all(s) == IF s = <<>> THEN <<>> ELSE nfkd(Head(s)) \o nfkd_all(Tail(s))

RECURSIVE decompose_hangul(_)
decompose_hangul(sent) ==
    IF sent = <<>> THEN <<>>
    ELSE LET h == Head(sent)
         IN (IF ~(IsSyllable(h) \/ IsJaeum(h) \/ IsMoeum(h)) THEN <<h>>
             ELSE nfkd_all(jamo_name(h)))
            \o decompose_hangul(Tail(sent))

---------------------------------------------------------------------------
(* Text normaliser *)

lower(c) == IF IsUpperAlpha(c) THEN c + 32 ELSE c

RECURSIVE lstrip(_)
lstrip(s) == IF s # <<>> /\ IsSpace(Head(s)) THEN lstrip(Tail(s)) ELSE s

\* text.lower().strip()
lower_strip(t) ==
    Reverse(lstrip(Reverse(lstrip([i \in 1..Len(t) |-> lower(t[i])]))))

\* re.sub of one rule
RECURSIVE sub_rule(_, _)
sub_rule(r, t) ==
    IF t = <<>> THEN <<>>
    ELSE (IF Head(t) = r.pat THEN r.word ELSE <<Head(t)>>) \o sub_rule(r, Tail(t))

\* the rules, applied in their order from rule k on
RECURSIVE apply_rules(_, _)
apply_rules(k, t) ==
    IF k > Len(convert_symbols) THEN t
    ELSE apply_rules(k + 1, sub_rule(convert_symbols[k], t))

\* re.sub("[a-z]", alpha_pron[...], text)
RECURSIVE sub_alpha(_)
sub_alpha(t) ==
    IF t = <<>> THEN <<>>
    ELSE (IF IsLowerAlpha(Head(t)) THEN alpha_pron[Head(t) - 96] ELSE <<Head(t)>>)
         \o sub_alpha(Tail(t))

\* length of the maximal digit run t starts with
RECURSIVE digit_prefix(_)
digit_prefix(t) ==
    IF t # <<>> /\ IsDigit(Head(t)) THEN 1 + digit_prefix(Tail(t)) ELSE 0

\* a variant that replaces only the first digit run (count = 1)
sub_numbers_first(t) ==
    LET starts == {i \in 1..Len(t) : IsDigit(t[i])}
    IN IF starts = {} THEN Ok(t)
       ELSE LET i == CHOOSE j \in starts : \A k \in starts : j <= k
                n == digit_prefix(SubSeq(t, i, Len(t)))
                w == convert_number(SubSeq(t, i, i + n - 1))
            IN IF w.raised THEN Raised
               ELSE Ok(SubSeq(t, 1, i - 1) \o w.val \o SubSeq(t, i + n, Len(t)))

\* re.sub("[0-9]+", convert_number, text)
RECURSIVE sub_numbers(_)
sub_numbers(t) ==
    IF t = <<>> THEN Ok(<<>>)
    ELSE IF IsDigit(Head(t))
    THEN LET n == digit_prefix(t)
             w == convert_number(SubSeq(t, 1, n))
             rest == sub_numbers(SubSeq(t, n + 1, Len(t)))
         IN IF w.raised \/ rest.raised THEN Raised ELSE Ok(w.val \o rest.val)
    ELSE LET rest == sub_numbers(Tail(t))
         IN IF rest.raised THEN Raised ELSE Ok(<<Head(t)>> \o rest.val)

\* re.sub("\s+", " ", text)
RECURSIVE collapse_space(_)
collapse_space(t) ==
    IF t = <<>> THEN <<>>
    ELSE IF IsSpace(Head(t)) THEN <<32>> \o collapse_space(lstrip(t))
    ELSE <<Head(t)>> \o collapse_space(Tail(t))

Allowed(c) == IsDigit(c) \/ IsLowerAlpha(c) \/ IsSyllable(c) \/ IsJaeum(c)
              \/ IsMoeum(c) \/ c = 32 \/ IsPunc(c)

\* re.sub("[^0-9a-z...]", "", text)
filter_chars(t) == SelectSeq(t, Allowed)

\* a variant that filters the characters before it expands the numerals
prep_text_filter_first(t, alpha, num) ==
    LET t1 == apply_rules(1, lower_strip(t))
        t2 == IF alpha THEN sub_alpha(t1) ELSE t1
        t3 == filter_chars(collapse_space(t2))
        t4 == IF num THEN sub_numbers(t3) ELSE Ok(t3)
    IN IF t4.raised THEN Raised ELSE Ok(decompose_hangul(t4.val))

prep_text(t, alpha, num) ==
    LET t1 == apply_rules(1, lower_strip(t))
        t2 == IF alpha THEN sub_alpha(t1) ELSE t1
        t3 == IF num THEN sub_numbers(t2) ELSE Ok(t2)
    IN IF t3.raised THEN Raised
       ELSE Ok(decompose_hangul(filter_chars(collapse_space(t3.val))))

---------------------------------------------------------------------------
(* Sequencer *)

InTable(s) == s \in Range(symbols)

\* _symbol_to_id / _id_to_symbol: the id is the 0-based position
symbol_to_id(s) == IndexOf(s, symbols) - 1
id_to_symbol(i) == symbols[i + 1]

RECURSIVE ids_of(_)
ids_of(ss) ==
    IF ss = <<>> THEN <<>>
    ELSE (IF InTable(Head(ss)) THEN <<symbol_to_id(Head(ss))>> ELSE <<>>)
         \o ids_of(Tail(ss))

text_to_sequence(t, alpha, num) ==
    LET p == prep_text(t, alpha, num)
    IN IF p.raised THEN Raised ELSE Ok(ids_of(p.val))

RECURSIVE sequence_to_text(_)
sequence_to_text(sq) ==
    IF sq = <<>> THEN <<>>
    ELSE (IF Head(sq) \in 0..(Len(symbols) - 1) THEN <<id_to_symbol(Head(sq))>> ELSE <<>>)
         \o sequence_to_text(Tail(sq))

---------------------------------------------------------------------------
(* State machines *)

\* the values of the variables a specification does not use
TextIdle == /\ text = <<>> /\ conv_alpha = FALSE /\ conv_number = FALSE
            /\ pc = "off" /\ result = Ok(<<>>) /\ seq1 = Ok(<<>>) /\ seq2 = Ok(<<>>)
NumIdle == number = <<>> /\ num_pc = "off" /\ num_out = Ok(<<>>)
HanIdle == hangul = 0 /\ han_pc = "off" /\ han_out = <<>>
MelIdle == /\ mel_basis = "None" /\ tpc = <<>> /\ tfn = <<>> /\ tlocal = <<>>
           /\ builds = 0 /\ writes = 0 /\ calls = <<>>

(* ---- the text pipeline: a caller types a text, then runs prep_text or ---- *)
(* ---- text_to_sequence on it, and feeds the ids back through both ways ---- *)

\* U+AC00 U+3131 '0' '1' '2' 'A' 'a' ' ' '#' '%'
Alphabet == <<44032, 12593, 48, 49, 50, 65, 97, 32, 35, 37>>

AllDigits(t) == \A i \in 1..Len(t) : IsDigit(t[i])

Init ==
    /\ text = <<>> /\ conv_alpha \in BOOLEAN /\ conv_number \in BOOLEAN
    /\ pc = "input" /\ result = Ok(<<>>) /\ seq1 = Ok(<<>>) /\ seq2 = Ok(<<>>)
    /\ NumIdle /\ HanIdle /\ MelIdle

TypeChar(c) ==
    /\ pc = "input"
    /\ IF Len(text) < MaxText THEN TRUE
       ELSE c = 48 /\ AllDigits(text) /\ Len(text) < MaxRun
    /\ text' = Append(text, c)
    /\ UNCHANGED <<conv_alpha, conv_number, pc, result, seq1, seq2>>
    /\ UNCHANGED <<numVars, hanVars, melVars>>

PrepText ==
    /\ pc = "input"
    /\ result' = prep_text(text, conv_alpha, conv_number)
    /\ pc' = "prepped"
    /\ UNCHANGED <<text, conv_alpha, conv_number, seq1, seq2>>
    /\ UNCHANGED <<numVars, hanVars, melVars>>

TextToSequence ==
    /\ pc = "input"
    /\ result' = prep_text(text, conv_alpha, conv_number)
    /\ seq1' = text_to_sequence(text, conv_alpha, conv_number)
    /\ pc' = "sequenced"
    /\ UNCHANGED <<text, conv_alpha, conv_number, seq2>>
    /\ UNCHANGED <<numVars, hanVars, melVars>>

RoundTrip ==
    /\ pc = "sequenced" /\ ~seq1.raised
    /\ seq2' = text_to_sequence(sequence_to_text(seq1.val), conv_alpha, conv_number)
    /\ pc' = "round"
    /\ UNCHANGED <<text, conv_alpha, conv_number, result, seq1>>
    /\ UNCHANGED <<numVars, hanVars, melVars>>

Next == (\E k \in 1..Len(Alphabet) : TypeChar(Alphabet[k])) \/ PrepText \/ TextToSequence \/ RoundTrip

Spec == Init /\ [][Next]_vars

(* ---- the numeral expander on its own: a digit run is typed, then expanded *)

Digits == {48, 49, 50}

InitNum ==
    /\ number = <<>> /\ num_pc = "input" /\ num_out = Ok(<<>>)
    /\ TextIdle /\ HanIdle /\ MelIdle

TypeDigit(d) ==
    /\ num_pc = "input" /\ Len(number) < MaxDigits
    /\ number' = Append(number, d)
    /\ UNCHANGED <<num_pc, num_out, textVars, hanVars, melVars>>

ConvertNumber ==
    /\ num_pc = "input" /\ Len(number) >= 1
    /\ num_out' = convert_number(number)
    /\ num_pc' = "done"
    /\ UNCHANGED <<number, textVars, hanVars, melVars>>

NextNum == (\E d \in Digits : TypeDigit(d)) \/ ConvertNumber

SpecNum == InitNum /\ [][NextNum]_vars

(* ---- the decomposer on one character: every syllable, every isolated ---- *)
(* ---- jamo, and two characters that are no Hangul ------------------------ *)

HangulInputs == (44032..55203) \cup (12593..12643) \cup {97, 49}

InitHangul ==
    /\ hangul \in HangulInputs /\ han_pc = "input" /\ han_out = <<>>
    /\ TextIdle /\ NumIdle /\ MelIdle

Decompose ==
    /\ han_pc = "input"
    /\ han_out' = decompose_hangul(<<hangul>>)
    /\ han_pc' = "done"
    /\ UNCHANGED <<hangul, textVars, numVars, melVars>>

NextHangul == Decompose

SpecHangul == InitHangul /\ [][NextHangul]_vars

(* ---- the mel-basis cache: threads call melspectrogram / inv_melspectro- -- *)
(* ---- gram; the test of the global, the build and the store are steps ---- *)

Threads == 1..NumThreads

InitMel ==
    /\ mel_basis = "None"
    /\ tpc = [t \in Threads |-> "idle"]
    /\ tfn = [t \in Threads |-> "none"]
    /\ tlocal = [t \in Threads |-> "None"]
    /\ calls = [t \in Threads |-> 0]
    /\ builds = 0 /\ writes = 0
    /\ TextIdle /\ NumIdle /\ HanIdle

\* melspectrogram(y) or inv_melspectrogram(mel) is entered
Call(t, f) ==
    /\ tpc[t] = "idle" /\ calls[t] < MaxCalls
    /\ tpc' = [tpc EXCEPT ![t] = "check"]
    /\ tfn' = [tfn EXCEPT ![t] = f]
    /\ calls' = [calls EXCEPT ![t] = @ + 1]
    /\ UNCHANGED <<mel_basis, tlocal, builds, writes, textVars, numVars, hanVars>>

\* if _mel_basis is None
CheckBasis(t) ==
    /\ tpc[t] = "check"
    /\ tpc' = [tpc EXCEPT ![t] = IF mel_basis = "None" THEN "build" ELSE "use"]
    /\ UNCHANGED <<mel_basis, tfn, tlocal, builds, writes, calls,
                   textVars, numVars, hanVars>>

\* _build_mel_basis()
build_mel_basis(t) ==
    /\ tpc[t] = "build"
    /\ tlocal' = [tlocal EXCEPT ![t] = "basis"]
    /\ builds' = builds + 1
    /\ tpc' = [tpc EXCEPT ![t] = "store"]
    /\ UNCHANGED <<mel_basis, tfn, writes, calls, textVars, numVars, hanVars>>

\* _mel_basis = <the built matrix>
StoreBasis(t) ==
    /\ tpc[t] = "store"
    /\ mel_basis' = tlocal[t]
    /\ writes' = writes + 1
    /\ tpc' = [tpc EXCEPT ![t] = "use"]
    /\ UNCHANGED <<tfn, tlocal, builds, calls, textVars, numVars, hanVars>>

\* the rest of the function reads _mel_basis and returns
UseBasis(t) ==
    /\ tpc[t] = "use"
    /\ tpc' = [tpc EXCEPT ![t] = "idle"]
    /\ tfn' = [tfn EXCEPT ![t] = "none"]
    /\ tlocal' = [tlocal EXCEPT ![t] = "None"]
    /\ UNCHANGED <<mel_basis, builds, writes, calls, textVars, numVars, hanVars>>

melspectrogram(t) == Call(t, "mel")
inv_melspectrogram(t) == Call(t, "inv")

NextMel ==
    \E t \in Threads :
        \/ melspectrogram(t) \/ inv_melspectrogram(t)
        \/ CheckBasis(t) \/ build_mel_basis(t) \/ StoreBasis(t) \/ UseBasis(t)

SpecMel == InitMel /\ [][NextMel]_vars

---------------------------------------------------------------------------
(* Properties *)

Count(c, s) == Cardinality({i \in 1..Len(s) : s[i] = c})
Returned == pc \in {"prepped", "sequenced", "round"}

\* C1: prep_text (and so text_to_sequence) returns for every text and every
\* combination of the flags; no digit run, however long, makes it raise.
C1_NeverRaises == Returned => ~result.raised

\* C2: when every symbol prep_text returned is in the symbol table, the ids
\* of the text rebuilt from the ids are the ids again:
\* text_to_sequence(sequence_to_text(text_to_sequence(s))) = text_to_sequence(s).
C2_RoundTripFixedPoint ==
    (pc = "round" /\ \A i \in 1..Len(result.val) : InTable(result.val[i]))
        => seq2 = seq1

\* the words the claim gives the digit d at position i (from the least
\* significant digit)
Contribution(i, d) ==
    IF d = 0 THEN <<>>
    ELSE IF i = 0 THEN digits[d + 1]
    ELSE IF d = 1 THEN get_number_of_digits(i).val
    ELSE digits[d + 1] \o get_number_of_digits(i).val

\* most significant digit first
RECURSIVE Expansion(_)
Expansion(s) ==
    IF s = <<>> THEN <<>>
    ELSE Contribution(Len(s) - 1, Head(s) - 48) \o Expansion(Tail(s))

\* C3: for a digit run without leading zeros convert_number returns the
\* contributions of its digits, most significant first: nothing for a 0, the
\* digit word at position 0 (also for a 1), the magnitude word alone for a 1
\* at a higher position, digit word then magnitude word otherwise; "10" is
\* the tens word alone and "11" is the tens word and the digit word of 1.
C3_PositionalExpansion ==
    (num_pc = "done" /\ Head(number) # 48) =>
        /\ num_out = Ok(Expansion(number))
        /\ number = <<49, 48>> => num_out.val = number_of_digits[1]
        /\ number = <<49, 49>> => num_out.val = number_of_digits[1] \o digits[2]

C3_Witness ==
    /\ num_pc = "done" /\ number = <<50, 49, 48, 49>>
    /\ num_out.val = digits[3] \o number_of_digits[3] \o number_of_digits[2] \o digits[2]

\* C4: a run of zeros of any length expands to the zero word, once; and no
\* digit run expands to the empty string.
C4_ZeroWord ==
    num_pc = "done" =>
        /\ (\A i \in 1..Len(number) : number[i] = 48) => num_out = Ok(digits[1])
        /\ ~num_out.raised => num_out.val # <<>>

C4_Witness == num_pc = "done" /\ number = <<48, 48, 48>> /\ num_out.val = digits[1]

\* C5: with conv_number the result holds no ASCII digit, with conv_alpha no
\* ASCII letter, and with any flags no upper-case ASCII letter.
C5_NoRawDigitsOrLetters ==
    (Returned /\ ~result.raised) =>
        \A i \in 1..Len(result.val) :
            /\ conv_number => ~IsDigit(result.val[i])
            /\ conv_alpha => ~IsLowerAlpha(result.val[i])
            /\ ~IsUpperAlpha(result.val[i])

C5_Witness ==
    /\ pc = "prepped" /\ conv_alpha /\ conv_number
    /\ \E i, j \in 1..Len(text) : IsUpperAlpha(text[i]) /\ IsDigit(text[j])
    /\ Len(result.val) >= 4

\* a character that no step keeps or rewrites: the filter drops it
Dropped(c) ==
    /\ ~Allowed(lower(c)) /\ ~IsSpace(c)
    /\ \A k \in 1..Len(convert_symbols) : convert_symbols[k].pat # c

\* text is a digit run, dropped characters, a digit run, cut after a and b
SplitRuns(a, b) ==
    /\ 1 <= a /\ a < b /\ b < Len(text)
    /\ \A i \in 1..a : IsDigit(text[i])
    /\ \A i \in (a + 1)..b : Dropped(text[i])
    /\ \A i \in (b + 1)..Len(text) : IsDigit(text[i])

C7_SyllableRoundTrip ==
    (han_pc = "done" /\ IsSyllable(hangul)) =>
        LET offset == hangul - 44032
            lead == offset \div (21 * 28)
            vowel == (offset \div 28) % 21
            trail == offset % 28
        IN /\ Len(han_out) = IF trail = 0 THEN 2 ELSE 3
           /\ han_out[1] = 4352 + lead
           /\ han_out[2] = 4449 + vowel
           /\ trail # 0 => han_out[3] = 4519 + trail
           /\ 44032 + ((han_out[1] - 4352) * 21 + (han_out[2] - 4449)) * 28
                    + (IF Len(han_out) = 3 THEN han_out[3] - 4519 ELSE 0) = hangul

C7_Witness ==
    /\ han_pc = "done" /\ hangul = 44033 /\ han_out = <<4352, 4449, 4520>>

\* the two syllables an isolated consonant is named by when the name is
\* synthesized: consonant + i, then the middle's consonant and vowel + consonant
SynthName(h) ==
    LET m == middle(h)
    IN << 44032 + ((IndexOf(h, CHO) - 1) * 21 + (m[1] - 12623)) * 28,
          44032 + ((IndexOf(m[3], CHO) - 1) * 21 + (m[4] - 12623)) * 28
                + IndexOf(h, JONG) >>

C9_GroupWordOnce ==
    (num_pc = "done" /\ ~num_out.raised) =>
        \A k \in 4..Len(number_of_digits) :
            Count(number_of_digits[k][1], num_out.val) <= 1

\* C10: under any interleaving of the calls the mel basis is built at most
\* once and stored at most once.
C10_BuiltOnce == builds <= 1 /\ writes <= 1

===========================================================================
